---- MODULE Spec2Model ----
(***************************************************************************)
(* repo-watcher (src/main.rs): one invocation opens a local repository,    *)
(* fetches one branch of one remote, compares the fetched tip with HEAD    *)
(* and, when they differ, calls pull_repo, which fetches again and merges  *)
(* FETCH_HEAD into HEAD with fail_on_conflict.                             *)
(*                                                                         *)
(* The on-disk repository, the remote server and the git2 primitives the   *)
(* program calls (open, find_remote, fetch, find_reference, head, merge)   *)
(* are modelled by their effect on HEAD, index, working tree, FETCH_HEAD   *)
(* and MERGE_HEAD.  Commits live on a remote line r_0 .. r_MaxRemote, with *)
(* local commits hanging off any remote commit.                            *)
(***************************************************************************)
EXTENDS Integers, Sequences, FiniteSets, TLC

\* Bounds of the model.
MaxRemote == 2      \* the remote branch holds commits r_0 .. r_MaxRemote
MaxLocal == 1       \* local commits on top of a remote commit
MaxRuns == 2        \* calls (invocations or direct calls) per behaviour

(***************************************************************************)
(* Commits, trees and the three-way merge                                  *)
(***************************************************************************)
\* A commit: the remote commit r it is based on, the number l of local
\* commits on top of it, and whether those local commits edit the file the
\* remote commits edit (x) or another file.
NoCommit == [r |-> -1, l |-> 0, x |-> FALSE]

RemoteLine == {[r |-> k, l |-> 0, x |-> FALSE] : k \in 0..MaxRemote}

Commits ==
    RemoteLine \cup
    {[r |-> k, l |-> m, x |-> b] : k \in 0..MaxRemote, m \in 1..MaxLocal, b \in BOOLEAN}

Files == {"a", "b"}

\* The snapshot of a commit.  Every remote commit rewrites file a; a local
\* commit rewrites a (x) or b (~x).
TreeOf(c) ==
    IF c = NoCommit
    THEN [f \in Files |-> <<"N", 0, 0>>]
    ELSE [f \in Files |->
            IF f = "a"
            THEN IF c.l > 0 /\ c.x THEN <<"L", c.r, c.l>> ELSE <<"R", c.r, 0>>
            ELSE IF c.l > 0 /\ ~c.x THEN <<"L", c.r, c.l>> ELSE <<"R", 0, 0>>]

IsAncestor(c, d) ==
    \/ c.l = 0 /\ c.r <= d.r
    \/ c.r = d.r /\ c.x = d.x /\ c.l <= d.l

\* The best common ancestor of two commits.
MergeBase(c, d) ==
    LET common == {m \in Commits : IsAncestor(m, c) /\ IsAncestor(m, d)}
    IN  CHOOSE m \in common : \A n \in common : IsAncestor(n, m)

ConflictMark == <<"C", 0, 0>>

\* Three-way merge of one file.
Merge3(b, o, t) ==
    IF o = t THEN o
    ELSE IF o = b THEN t
    ELSE IF t = b THEN o
    ELSE ConflictMark

MergeTrees(ours, theirs) ==
    LET base == TreeOf(MergeBase(ours, theirs))
    IN  [f \in Files |-> Merge3(base[f], TreeOf(ours)[f], TreeOf(theirs)[f])]

\* Oid::to_string: the hexadecimal rendering of a commit identifier.
OidToString(c) == <<c.r, c.l, IF c.x THEN 1 ELSE 0>>

NoSha == <<>>

(***************************************************************************)
(* State                                                                   *)
(***************************************************************************)
VARIABLES
    \* the local repository on disk
    head,           \* commit HEAD peels to (NoCommit: unborn branch)
    index,          \* staged tree
    workdir,        \* working tree
    mergeHead,      \* MERGE_HEAD (NoCommit: not merging)
    fetchHead,      \* FETCH_HEAD (NoCommit: absent)
    \* the remote
    remoteTip,      \* tip of the monitored branch on the remote
    transport,      \* "anon" | "ssh" | "ssh_nouser": what the remote URL asks for
    \* the running process
    pc,
    mode,           \* "run" | "fetch" | "check" | "pull": the function entered
    cli,            \* the arguments / configuration values given
    fetch_options,  \* key path the credential callback was built with
    latest_sha,
    has_new_commits,
    outcome,        \* how the call ended
    exit,           \* process exit status (-1: still running)
    runs,
    \* history
    startRepo,      \* head, index, workdir when the call started
    startRemoteTip, \* remote tip when the call started
    netCalls,       \* network fetches started in this call
    trace,          \* stages entered in this call, in order
    checked,        \* check_for_new_commits has returned in this call
    merged,         \* commit handed to repo.merge in this call
    refetched,      \* remote tip pull_repo's own fetch saw
    raceFree,       \* the remote did not move between the two fetches
    unchanged,      \* the remote has not moved since the Fetcher last fetched
    lastSha,        \* what fetch_latest_commit_sha last returned
    expectSha       \* lastSha, when the remote is unchanged since that call

repoVars == <<head, index, workdir, mergeHead, fetchHead>>
remoteVars == <<remoteTip, transport>>
procVars == <<pc, mode, cli, fetch_options, latest_sha, has_new_commits, outcome, exit, runs>>
histVars == <<startRepo, startRemoteTip, netCalls, trace, checked, merged, refetched,
              raceFree, unchanged, lastSha, expectSha>>
vars == <<repoVars, remoteVars, procVars, histVars>>

NoOutcome == [kind |-> "running", stage |-> "", cause |-> ""]
Ok == [kind |-> "ok", stage |-> "", cause |-> ""]
Err(stage, cause) == [kind |-> "err", stage |-> stage, cause |-> cause]
Panic(stage, cause) == [kind |-> "panic", stage |-> stage, cause |-> cause]

NoCli == [local_path |-> "missing", remote |-> "missing", branch |-> "missing",
          ssh_key_path |-> "missing"]

Snapshot == [head |-> head, index |-> index, workdir |-> workdir]

\* An uncommitted edit of file f in the working tree.
Edited(tree, f) == [tree EXCEPT ![f] = <<"W", 0, 0>>]

Init ==
    /\ remoteTip \in RemoteLine
    /\ transport \in {"anon", "ssh", "ssh_nouser"}
    /\ head \in {NoCommit} \cup {c \in Commits : c.r <= remoteTip.r}
    /\ index = TreeOf(head)
    /\ workdir \in {TreeOf(head), Edited(TreeOf(head), "a"), Edited(TreeOf(head), "b")}
    /\ mergeHead = NoCommit
    /\ fetchHead \in {NoCommit} \cup {c \in RemoteLine : c.r <= remoteTip.r}
    /\ pc = "idle"
    /\ mode = "run"
    /\ cli = NoCli
    /\ fetch_options = "missing"
    /\ latest_sha = NoSha
    /\ has_new_commits = FALSE
    /\ outcome = NoOutcome
    /\ exit = -1
    /\ runs = 0
    /\ startRepo = Snapshot
    /\ startRemoteTip = remoteTip
    /\ netCalls = 0
    /\ trace = <<>>
    /\ checked = FALSE
    /\ merged = NoCommit
    /\ refetched = NoCommit
    /\ raceFree = FALSE
    /\ unchanged = FALSE
    /\ lastSha = NoSha
    /\ expectSha = NoSha

(***************************************************************************)
(* The library primitives the program calls                                *)
(***************************************************************************)
\* RemoteFetch, had the library never asked the key to prove anything.
RemoteFetchAnyKey(url, key, netOk) ==
    IF ~netOk THEN "Network"
    ELSE IF url = "anon" THEN "ok"
    ELSE IF key = "missing" THEN "Auth"
    ELSE IF url = "ssh_nouser" THEN "UsernameUnwrap"
    ELSE "ok"

\* Remote::fetch: how the network exchange ends, given what the remote URL
\* asks for, the key the credential callback offers ("missing": no callback
\* was installed) and whether the connection holds.  The callback unwraps
\* username_from_url, so a URL without a user name panics in it.
RemoteFetch(url, key, netOk) ==
    IF ~netOk THEN "Network"
    ELSE IF url = "anon" THEN "ok"
    ELSE IF key = "missing" THEN "Auth"
    ELSE IF url = "ssh_nouser" THEN "UsernameUnwrap"
    ELSE IF key = "valid" THEN "ok"
    ELSE "Auth"

\* merge_options, had fail_on_conflict been left at its default.
merge_options_default == [fail_on_conflict |-> FALSE]

\* MergeOptions::new() with fail_on_conflict(true).
merge_options == [fail_on_conflict |-> TRUE]

\* Repository::merge: merges theirs into HEAD, writing the result to the
\* index and the working tree and recording MERGE_HEAD.  It creates no commit
\* and never moves the branch.  Any failure leaves index and working tree as
\* they were and clears the merge state.
git_merge(h, idx, wd, theirs, opts) ==
    IF h = NoCommit
    THEN [code |-> "UnbornBranch", index |-> idx, workdir |-> wd, mergeHead |-> NoCommit]
    ELSE
      LET result == MergeTrees(h, theirs)
          conflicts == {f \in Files : result[f] = ConflictMark}
          paths == {f \in Files : result[f] # TreeOf(h)[f]}
          staged == {f \in paths : idx[f] # TreeOf(h)[f] /\ idx[f] # result[f]}
          dirty == {f \in paths : wd[f] # idx[f]}
      IN  IF conflicts # {} /\ opts.fail_on_conflict
          THEN [code |-> "MergeConflict", index |-> idx, workdir |-> wd,
                mergeHead |-> NoCommit]
          ELSE IF staged \cup dirty # {}
          THEN [code |-> "Conflict", index |-> idx, workdir |-> wd,
                mergeHead |-> NoCommit]
          ELSE [code |-> "ok",
                index |-> [f \in Files |-> IF f \in paths THEN result[f] ELSE idx[f]],
                workdir |-> [f \in Files |-> IF f \in paths THEN result[f] ELSE wd[f]],
                mergeHead |-> theirs]

(***************************************************************************)
(* The program                                                             *)
(***************************************************************************)
\* ConfigPanic, had the SSH key path been allowed to be absent.
ConfigPanicOptionalKey(c) ==
    IF c.local_path = "missing" THEN "Local path not set"
    ELSE IF c.remote = "missing" THEN "Remote not set"
    ELSE IF c.branch = "missing" THEN "Branch not set"
    ELSE ""

\* run, lines 132-135: each value comes from its flag or the environment;
\* expect() panics on the first one that neither supplies.
ConfigPanic(c) ==
    IF c.local_path = "missing" THEN "Local path not set"
    ELSE IF c.remote = "missing" THEN "Remote not set"
    ELSE IF c.branch = "missing" THEN "Branch not set"
    ELSE IF c.ssh_key_path = "missing" THEN "SSH key path not set"
    ELSE ""

\* ExitStatus, had main dropped run's result instead of propagating it.
ExitStatusIgnoringErr(o) ==
    IF o.kind = "panic" THEN 101 ELSE 0

\* main: Ok(()) exits 0, an Err returned from main exits 1, a panic 101.
ExitStatus(o) ==
    IF o.kind = "ok" THEN 0 ELSE IF o.kind = "err" THEN 1 ELSE 101

\* The call ends with outcome o; a run started from main sets the exit status.
Finish(m, o) ==
    /\ pc' = "done"
    /\ outcome' = o
    /\ exit' = IF m = "run" THEN ExitStatus(o) ELSE -1

Continue(next) ==
    /\ pc' = next
    /\ UNCHANGED <<outcome, exit>>

BeginCall(m, c) ==
    /\ pc = "idle"
    /\ runs < MaxRuns
    /\ runs' = runs + 1
    /\ mode' = m
    /\ cli' = c
    /\ fetch_options' = "missing"
    /\ has_new_commits' = FALSE
    /\ startRepo' = Snapshot
    /\ startRemoteTip' = remoteTip
    /\ netCalls' = 0
    /\ trace' = <<>>
    /\ checked' = FALSE
    /\ merged' = NoCommit
    /\ refetched' = NoCommit
    /\ raceFree' = FALSE
    /\ expectSha' = NoSha
    /\ UNCHANGED <<repoVars, remoteVars, unchanged, lastSha>>

\* main -> run: resolve the configuration, then enter the pipeline.
run ==
    \E lp \in {"missing", "repo", "nodir"}, rm \in {"missing", "origin", "nosuch"},
       br \in {"missing", "master"}, key \in {"missing", "valid", "invalid"} :
        LET c == [local_path |-> lp, remote |-> rm, branch |-> br, ssh_key_path |-> key]
        IN  /\ BeginCall("run", c)
            /\ latest_sha' = NoSha
            /\ IF ConfigPanic(c) # ""
               THEN Finish("run", Panic("config", ConfigPanic(c)))
               ELSE Continue("f_open")

\* Direct calls of the three functions, as the tests make them.
call_fetch_latest_commit_sha ==
    \E lp \in {"repo", "nodir"}, rm \in {"origin", "nosuch"}, key \in {"valid", "invalid"} :
        /\ BeginCall("fetch", [local_path |-> lp, remote |-> rm, branch |-> "master",
                               ssh_key_path |-> key])
        /\ latest_sha' = NoSha
        /\ Continue("f_open")

call_check_for_new_commits ==
    \E lp \in {"repo", "nodir"}, c \in RemoteLine :
        /\ BeginCall("check", [NoCli EXCEPT !.local_path = lp])
        /\ latest_sha' = OidToString(c)
        /\ Continue("check")

call_pull_repo ==
    \E lp \in {"repo", "nodir"}, rm \in {"origin", "nosuch"} :
        /\ BeginCall("pull", [NoCli EXCEPT !.local_path = lp, !.remote = rm,
                                           !.branch = "master"])
        /\ latest_sha' = NoSha
        /\ Continue("p_open")

\* fetch_latest_commit_sha, lines 69-82: open the repository, build the
\* callbacks and the fetch options.
FetchOpen ==
    /\ pc = "f_open"
    /\ trace' = Append(trace, "fetch")
    /\ IF cli.local_path # "repo"
       THEN Finish(mode, Err("fetch", "NotFound")) /\ UNCHANGED fetch_options
       ELSE Continue("f_remote") /\ fetch_options' = cli.ssh_key_path
    /\ UNCHANGED <<repoVars, remoteVars, mode, cli, latest_sha, has_new_commits, runs,
                   startRepo, startRemoteTip, netCalls, checked, merged, refetched,
                   raceFree, unchanged, lastSha, expectSha>>

\* FetchFindRemote, had the remote not been resolved before fetching.
FetchSkipFindRemote ==
    /\ pc = "f_remote"
    /\ Continue("f_fetch")
    /\ UNCHANGED <<repoVars, remoteVars, mode, cli, fetch_options, latest_sha,
                   has_new_commits, runs, histVars>>

\* line 84: repo.find_remote(remote)?
FetchFindRemote ==
    /\ pc = "f_remote"
    /\ IF cli.remote # "origin"
       THEN Finish(mode, Err("fetch", "RemoteNotFound"))
       ELSE Continue("f_fetch")
    /\ UNCHANGED <<repoVars, remoteVars, mode, cli, fetch_options, latest_sha,
                   has_new_commits, runs, histVars>>

\* FetchNetwork, had the fetch left the FETCH_HEAD of an earlier fetch in place.
FetchNetworkStaleHead ==
    /\ pc = "f_fetch"
    /\ netCalls' = netCalls + 1
    /\ \E netOk \in BOOLEAN :
        LET res == RemoteFetch(transport, fetch_options, netOk)
        IN  IF res = "ok"
            THEN /\ unchanged' = TRUE
                 /\ expectSha' = IF unchanged THEN lastSha ELSE NoSha
                 /\ Continue("f_resolve")
            ELSE /\ UNCHANGED <<unchanged, expectSha>>
                 /\ IF res = "UsernameUnwrap"
                    THEN Finish(mode, Panic("fetch", res))
                    ELSE Finish(mode, Err("fetch", res))
    /\ UNCHANGED <<repoVars, remoteVars, mode, cli, fetch_options,
                   latest_sha, has_new_commits, runs, startRepo, startRemoteTip, trace,
                   checked, merged, refetched, raceFree, lastSha>>

\* line 85: .fetch(&[branch], Some(&mut fetch_options), None)?
FetchNetwork ==
    /\ pc = "f_fetch"
    /\ netCalls' = netCalls + 1
    /\ \E netOk \in BOOLEAN :
        LET res == RemoteFetch(transport, fetch_options, netOk)
        IN  IF res = "ok"
            THEN /\ fetchHead' = remoteTip
                 /\ unchanged' = TRUE
                 /\ expectSha' = IF unchanged THEN lastSha ELSE NoSha
                 /\ Continue("f_resolve")
            ELSE /\ UNCHANGED <<fetchHead, unchanged, expectSha>>
                 /\ IF res = "UsernameUnwrap"
                    THEN Finish(mode, Panic("fetch", res))
                    ELSE Finish(mode, Err("fetch", res))
    /\ UNCHANGED <<head, index, workdir, mergeHead, remoteVars, mode, cli, fetch_options,
                   latest_sha, has_new_commits, runs, startRepo, startRemoteTip, trace,
                   checked, merged, refetched, raceFree, lastSha>>

\* lines 87-90: resolve FETCH_HEAD and return its identifier as a string.
FetchResolve ==
    /\ pc = "f_resolve"
    /\ IF fetchHead = NoCommit
       THEN /\ Finish(mode, Err("fetch", "RefNotFound"))
            /\ UNCHANGED <<latest_sha, lastSha>>
       ELSE /\ latest_sha' = OidToString(fetchHead)
            /\ lastSha' = OidToString(fetchHead)
            /\ IF mode = "run" THEN Continue("check") ELSE Finish(mode, Ok)
    /\ UNCHANGED <<repoVars, remoteVars, mode, cli, fetch_options, has_new_commits, runs,
                   startRepo, startRemoteTip, netCalls, trace, checked, merged, refetched,
                   raceFree, unchanged, expectSha>>

\* check_for_new_commits, with the comparison inverted.
check_for_new_commits_inverted(local_sha, sha) == local_sha = sha

\* check_for_new_commits, comparing an abbreviated identifier only.
check_for_new_commits_abbrev(local_sha, sha) == local_sha[1] # sha[1]

\* check_for_new_commits, line 98: local_sha != latest_sha
check_for_new_commits(local_sha, sha) == local_sha # sha

\* check_for_new_commits, lines 93-99, and run's branch on it, lines 147-152.
CheckStage ==
    /\ pc = "check"
    /\ trace' = Append(trace, "compare")
    /\ IF cli.local_path # "repo"
       THEN /\ Finish(mode, Err("compare", "NotFound"))
            /\ UNCHANGED <<has_new_commits, checked>>
       ELSE IF head = NoCommit
       THEN /\ Finish(mode, Err("compare", "UnbornBranch"))
            /\ UNCHANGED <<has_new_commits, checked>>
       ELSE /\ has_new_commits' = check_for_new_commits(OidToString(head), latest_sha)
            /\ checked' = TRUE
            /\ IF mode = "run" /\ has_new_commits'
               THEN Continue("p_open")
               ELSE Finish(mode, Ok)
    /\ UNCHANGED <<repoVars, remoteVars, mode, cli, fetch_options, latest_sha, runs,
                   startRepo, startRemoteTip, netCalls, merged, refetched, raceFree,
                   unchanged, lastSha, expectSha>>

\* pull_repo, line 102: open the repository.
PullOpen ==
    /\ pc = "p_open"
    /\ trace' = Append(trace, "merge")
    /\ IF cli.local_path # "repo"
       THEN Finish(mode, Err("merge", "NotFound"))
       ELSE Continue("p_remote")
    /\ UNCHANGED <<repoVars, remoteVars, mode, cli, fetch_options, latest_sha,
                   has_new_commits, runs, startRepo, startRemoteTip, netCalls, checked,
                   merged, refetched, raceFree, unchanged, lastSha, expectSha>>

\* line 103: repo.find_remote(remote)?
PullFindRemote ==
    /\ pc = "p_remote"
    /\ IF cli.remote # "origin"
       THEN Finish(mode, Err("merge", "RemoteNotFound"))
       ELSE Continue("p_fetch")
    /\ UNCHANGED <<repoVars, remoteVars, mode, cli, fetch_options, latest_sha,
                   has_new_commits, runs, histVars>>

\* PullNetwork, had pull_repo merged the FETCH_HEAD the Fetcher left.
PullNetworkReuseHead ==
    /\ pc = "p_fetch"
    /\ netCalls' = netCalls + 1
    /\ \E netOk \in BOOLEAN :
        LET res == RemoteFetch(transport, "missing", netOk)
        IN  IF res = "ok"
            THEN /\ refetched' = remoteTip
                 /\ raceFree' = unchanged
                 /\ Continue("p_merge")
            ELSE /\ UNCHANGED <<refetched, raceFree>>
                 /\ Finish(mode, Err("merge", res))
    /\ UNCHANGED <<repoVars, remoteVars, mode, cli, fetch_options,
                   latest_sha, has_new_commits, runs, startRepo, startRemoteTip, trace,
                   checked, merged, unchanged, lastSha, expectSha>>

\* line 105: remote.fetch(&[branch], None, None)?  No callbacks are passed.
PullNetwork ==
    /\ pc = "p_fetch"
    /\ netCalls' = netCalls + 1
    /\ \E netOk \in BOOLEAN :
        LET res == RemoteFetch(transport, "missing", netOk)
        IN  IF res = "ok"
            THEN /\ fetchHead' = remoteTip
                 /\ refetched' = remoteTip
                 /\ raceFree' = unchanged
                 /\ Continue("p_merge")
            ELSE /\ UNCHANGED <<fetchHead, refetched, raceFree>>
                 /\ Finish(mode, Err("merge", res))
    /\ UNCHANGED <<head, index, workdir, mergeHead, remoteVars, mode, cli, fetch_options,
                   latest_sha, has_new_commits, runs, startRepo, startRemoteTip, trace,
                   checked, merged, unchanged, lastSha, expectSha>>

\* lines 107-113: resolve FETCH_HEAD and merge it into HEAD; every failure is
\* unwrapped, so it panics.
PullMerge ==
    /\ pc = "p_merge"
    /\ IF fetchHead = NoCommit
       THEN /\ Finish(mode, Panic("merge", "RefNotFound"))
            /\ UNCHANGED <<index, workdir, mergeHead, merged>>
       ELSE LET res == git_merge(head, index, workdir, fetchHead, merge_options)
            IN  /\ merged' = fetchHead
                /\ index' = res.index
                /\ workdir' = res.workdir
                /\ mergeHead' = res.mergeHead
                /\ IF res.code = "ok"
                   THEN Finish(mode, Ok)
                   ELSE Finish(mode, Panic("merge", res.code))
    /\ UNCHANGED <<head, fetchHead, remoteVars, mode, cli, fetch_options, latest_sha,
                   has_new_commits, runs, startRepo, startRemoteTip, netCalls, trace,
                   checked, refetched, raceFree, unchanged, lastSha, expectSha>>

\* The process has ended; the next call starts from a fresh process.
Return ==
    /\ pc = "done"
    /\ pc' = "idle"
    /\ mode' = "run"
    /\ cli' = NoCli
    /\ fetch_options' = "missing"
    /\ latest_sha' = NoSha
    /\ has_new_commits' = FALSE
    /\ outcome' = NoOutcome
    /\ exit' = -1
    /\ startRepo' = Snapshot
    /\ startRemoteTip' = remoteTip
    /\ netCalls' = 0
    /\ trace' = <<>>
    /\ checked' = FALSE
    /\ merged' = NoCommit
    /\ refetched' = NoCommit
    /\ raceFree' = FALSE
    /\ expectSha' = NoSha
    /\ UNCHANGED <<repoVars, remoteVars, runs, unchanged, lastSha>>

\* Somebody pushes one more commit to the monitored branch.
RemoteUpdate ==
    /\ remoteTip.r < MaxRemote
    /\ remoteTip' = [remoteTip EXCEPT !.r = remoteTip.r + 1]
    /\ unchanged' = FALSE
    /\ UNCHANGED <<repoVars, transport, procVars, startRepo, startRemoteTip, netCalls,
                   trace, checked, merged, refetched, raceFree, lastSha, expectSha>>

Next ==
    \/ run
    \/ call_fetch_latest_commit_sha
    \/ call_check_for_new_commits
    \/ call_pull_repo
    \/ FetchOpen
    \/ FetchFindRemote
    \/ FetchNetwork
    \/ FetchResolve
    \/ CheckStage
    \/ PullOpen
    \/ PullFindRemote
    \/ PullNetwork
    \/ PullMerge
    \/ Return
    \/ RemoteUpdate

Spec == Init /\ [][Next]_vars

(***************************************************************************)
(* Properties                                                              *)
(***************************************************************************)
InTrace(stage) == \E i \in 1..Len(trace) : trace[i] = stage

\* The repository the call started from was clean: nothing staged, nothing edited.
StartedClean ==
    /\ startRepo.index = TreeOf(startRepo.head)
    /\ startRepo.workdir = TreeOf(startRepo.head)

\* The local branch was behind the remote branch by at least one linear commit.
StartedBehind ==
    /\ startRepo.head # NoCommit
    /\ startRepo.head.l = 0
    /\ startRepo.head.r < startRemoteTip.r

\* A committed local change and a change of theirs hit the same file.
CommittedConflict(repo, theirs) ==
    /\ repo.head # NoCommit
    /\ \E f \in Files :
        LET base == TreeOf(MergeBase(repo.head, theirs))
        IN  /\ TreeOf(repo.head)[f] # base[f]
            /\ TreeOf(theirs)[f] # base[f]
            /\ TreeOf(repo.head)[f] # TreeOf(theirs)[f]

\* An uncommitted local change and a change of theirs hit the same file.
UncommittedConflict(repo, theirs) ==
    /\ repo.head # NoCommit
    /\ \E f \in Files :
        LET base == TreeOf(MergeBase(repo.head, theirs))
        IN  /\ repo.workdir[f] # TreeOf(repo.head)[f]
            /\ TreeOf(theirs)[f] # base[f]
            /\ repo.workdir[f] # TreeOf(theirs)[f]

\* C1: a run that starts from a clean repository behind the remote by N >= 1
\* linear commits, against a remote that does not move, and ends successfully
\* after merging, ends with the local branch tip equal to the remote tip.
C1_LocalTipReachesRemoteTip ==
    (/\ mode = "run"
     /\ pc = "done"
     /\ outcome = Ok
     /\ merged # NoCommit
     /\ StartedBehind
     /\ StartedClean
     /\ remoteTip = startRemoteTip)
    => head = startRemoteTip

\* C2: when the local tip equals the fetched tip, check_for_new_commits
\* returns false, pull_repo is not called and the run ends successfully with
\* local tip, index and working tree as they were when it started; this holds
\* of every run of a sequence of runs.
C2_UpToDateNoMerge ==
    (mode = "run" /\ checked /\ OidToString(startRepo.head) = latest_sha)
    => /\ ~has_new_commits
       /\ pc = "done"
       /\ outcome = Ok
       /\ ~InTrace("merge")
       /\ merged = NoCommit
       /\ Snapshot = startRepo

C2_Witness ==
    /\ mode = "run"
    /\ runs >= 2
    /\ checked
    /\ OidToString(startRepo.head) = latest_sha
    /\ pc = "done"

\* C3: when a local change conflicts with a change of the commit being
\* merged, the merge stage fails with a conflict error, the run exits
\* non-zero, and the local branch tip (with index and working tree) is what
\* it was before the call; no merge state is left behind.
C3_ConflictFailsTipUnchanged ==
    (/\ mode \in {"run", "pull"}
     /\ pc = "done"
     /\ merged # NoCommit
     /\ CommittedConflict(startRepo, merged) \/ UncommittedConflict(startRepo, merged))
    => /\ outcome.kind # "ok"
       /\ outcome.stage = "merge"
       /\ outcome.cause \in {"MergeConflict", "Conflict"}
       /\ mode = "run" => exit > 0
       /\ head = startRepo.head
       /\ Snapshot = startRepo
       /\ mergeHead = NoCommit

C3_Witness ==
    /\ mode = "run"
    /\ pc = "done"
    /\ merged # NoCommit
    /\ CommittedConflict(startRepo, merged)
    /\ outcome = Panic("merge", "MergeConflict")
    /\ head = startRepo.head

\* C4: a run exits 0 exactly when it found no new commits or its merge
\* succeeded; a failure ends it with a non-zero status at the stage that
\* failed, and the stages entered are a prefix of fetch, compare, merge with
\* none entered twice.
C4_ExitStatus ==
    (mode = "run" /\ pc = "done")
    => /\ exit = 0 <=> \/ checked /\ ~has_new_commits
                       \/ merged # NoCommit /\ mergeHead = merged
       /\ outcome.kind # "ok" => exit > 0
       /\ (outcome.kind # "ok" /\ outcome.stage # "config")
            => (trace # <<>> /\ trace[Len(trace)] = outcome.stage)
       /\ outcome.stage = "config" => trace = <<>>
       /\ trace = SubSeq(<<"fetch", "compare", "merge">>, 1, Len(trace))

C4_Witness ==
    /\ mode = "run"
    /\ pc = "done"
    /\ exit = 0
    /\ merged # NoCommit
    /\ trace = <<"fetch", "compare", "merge">>

\* C5: when the remote name given is not configured in the repository, no
\* network fetch is started, and the call ends with the remote-not-found
\* configuration error (a run exits non-zero).
C5_NoFetchBeforeRemoteError ==
    (/\ mode \in {"run", "fetch", "pull"}
     /\ cli.remote = "nosuch")
    => /\ netCalls = 0
       /\ pc \notin {"f_fetch", "f_resolve", "p_fetch", "p_merge"}
       /\ (pc = "done" /\ cli.local_path = "repo" /\ outcome.stage # "config")
            => /\ outcome.kind = "err"
               /\ outcome.cause = "RemoteNotFound"
               /\ mode = "run" => exit > 0

C5_Witness ==
    /\ mode = "run"
    /\ cli.remote = "nosuch"
    /\ pc = "done"
    /\ outcome = Err("fetch", "RemoteNotFound")
    /\ netCalls = 0

\* C6 (as stated): with an SSH key path that is no valid key, for every
\* remote the run never enters the compare or merge stage and never ends
\* successfully.
C6_InvalidKeyAlwaysFails ==
    (mode = "run" /\ cli.ssh_key_path = "invalid")
    => /\ ~InTrace("compare")
       /\ ~InTrace("merge")
       /\ outcome.kind # "ok"

\* C6 (amended): with an SSH key path that is no valid key and a remote whose
\* transport asks for credentials, the run never enters the compare or merge
\* stage and never ends successfully; when the fetch reaches the remote and
\* the URL carries a user name it fails with an authentication error.
C6_InvalidKeyFailsWhenAsked ==
    (mode = "run" /\ cli.ssh_key_path = "invalid" /\ transport # "anon")
    => /\ ~InTrace("compare")
       /\ ~InTrace("merge")
       /\ outcome.kind # "ok"
       /\ pc = "done" => exit > 0
       /\ (pc = "done" /\ netCalls > 0 /\ transport = "ssh" /\ outcome.cause # "Network")
            => outcome = Err("fetch", "Auth")

C6_Witness ==
    /\ mode = "run"
    /\ cli.ssh_key_path = "invalid"
    /\ transport = "ssh"
    /\ pc = "done"
    /\ netCalls = 1
    /\ outcome = Err("fetch", "Auth")

\* A run was given local path, remote and branch but no SSH key path.
NoKeyGiven ==
    /\ mode = "run"
    /\ cli.local_path # "missing"
    /\ cli.remote # "missing"
    /\ cli.branch # "missing"
    /\ cli.ssh_key_path = "missing"

C8_FetchDeterministic ==
    (mode \in {"run", "fetch"} /\ latest_sha # NoSha /\ expectSha # NoSha)
    => latest_sha = expectSha

C8_Witness ==
    /\ mode = "fetch"
    /\ pc = "done"
    /\ latest_sha # NoSha
    /\ expectSha = latest_sha
    /\ OidToString(mergeHead) = latest_sha

\* C9: check_for_new_commits returns true exactly when HEAD's identifier is
\* not the string it was given, and a run calls pull_repo exactly when it
\* returned true, whether the local branch is behind, ahead or diverged.
C9_DiffersIffNotEqual ==
    checked
    => /\ has_new_commits <=> OidToString(startRepo.head) # latest_sha
       /\ mode = "run" => (has_new_commits <=> (pc = "p_open" \/ InTrace("merge")))

C9_Witness ==
    /\ mode = "run"
    /\ checked
    /\ InTrace("merge")
    /\ merged # NoCommit
    /\ startRepo.head.l > 0
    /\ startRepo.head.r = merged.r

\* C10 (as stated): the commit pull_repo merges is the commit whose
\* identifier fetch_latest_commit_sha returned.
C10_MergesFetchedCommit ==
    (mode = "run" /\ merged # NoCommit) => OidToString(merged) = latest_sha

\* C10 (amended): the commit pull_repo merges is the remote tip its own
\* re-fetch saw; it is the commit whose identifier fetch_latest_commit_sha
\* returned whenever the remote branch did not move between the two fetches.
C10_MergesRefetchedCommit ==
    (mode = "run" /\ merged # NoCommit)
    => /\ merged = refetched
       /\ raceFree => OidToString(merged) = latest_sha

C10_Witness ==
    /\ mode = "run"
    /\ merged # NoCommit
    /\ merged = refetched
    /\ OidToString(merged) # latest_sha

TypeOK ==
    /\ head \in Commits \cup {NoCommit}
    /\ fetchHead \in RemoteLine \cup {NoCommit}
    /\ mergeHead \in RemoteLine \cup {NoCommit}
    /\ remoteTip \in RemoteLine
    /\ pc \in {"idle", "f_open", "f_remote", "f_fetch", "f_resolve", "check", "p_open",
               "p_remote", "p_fetch", "p_merge", "done"}
    /\ mode \in {"run", "fetch", "check", "pull"}
    /\ exit \in {-1, 0, 1, 101}
    /\ runs \in 0..MaxRuns
    /\ netCalls \in 0..2

====
